---- MODULE Spec2Model ----
(***************************************************************************)
(* qPCR standard-curve dashboard (curve_fit_2.py; curve_fit.py is the      *)
(* earlier variant with dilution factor 10, start Ct 9.0, interval 3.0 and *)
(* no bootstrap, QC or range flag).                                        *)
(*                                                                         *)
(* The script is a Streamlit page: every change of a widget re-runs the    *)
(* whole script top to bottom, so each action below is "one widget takes a *)
(* new value, then the script runs" (Rerun).                               *)
(*                                                                         *)
(* Numbers.  Python floats are modelled exactly:                           *)
(*   - Ct values and the unknowns' dilution are integers in tenths         *)
(*     (the widgets step by 0.1);                                          *)
(*   - QC thresholds are integers in hundredths (the widgets step by 0.01);*)
(*   - copy numbers are decimal floats [num, den, exp] = num/den * 10^exp; *)
(*   - regression results are rationals <<n, d>>, d > 0, in lowest terms.  *)
(* log10 is exact on powers of ten only, so the stock inputs are chosen to *)
(* give a base copy number that is a power of ten (or zero).  Rounding of  *)
(* binary floating point is outside the model.                             *)
(***************************************************************************)
EXTENDS Integers, Sequences, FiniteSets, TLC

VARIABLES
    \* ---- widget state (inputs) --------------------------------------
    conc,        \* 'Stock conc (ng)'
    length,      \* 'Seq length (bp)'
    factor,      \* 'Dilution factor'
    points,      \* 'Points' slider
    start_ct,    \* 'Start Ct', tenths
    interval,    \* 'Ct interval', tenths
    ct_in,       \* keyed widgets ct{i}: user-entered Ct (tenths) or NO_CT
    min_slope,   \* hundredths
    max_slope,   \* hundredths
    r2_thresh,   \* hundredths
    num_unk,     \* 'Unknown count'
    ctu_in,      \* keyed widgets ctu{j}, tenths
    du_in,       \* keyed widgets diu{j}, tenths
    rng,         \* state of the process-wide random generator
    \* ---- what the last run of the script put on the page ---------------
    page,        \* record: status ("ok" | "error": the main fit raised),
                 \* base_copies, df_std, slope, intercept, r2, eff, lod,
                 \* draws (row numbers drawn by each bootstrap iteration),
                 \* recorded (whether each iteration appended to boot),
                 \* boot, ci_m, ci_b, qc, df_unk, rng
    \* ---- sequence method of section 1 -------------------------------
    seq,         \* text area 'Sequence (DNA/RNA)'
    seq_clean,   \* what calc_sequence hands to molecular_weight
    seq_status   \* "idle" | "stopped" | "ok" | "error"

inputs  == <<conc, length, factor, points, start_ct, interval, ct_in,
             min_slope, max_slope, r2_thresh, num_unk, ctu_in, du_in>>
outputs == <<page>>
seqvars == <<seq, seq_clean, seq_status>>
vars    == <<inputs, rng, outputs, seqvars>>

----------------------------------------------------------------------------
\* Bounds of the model.
MaxPoints  == 3      \* the slider allows 2..12
BootIters  == 2      \* the script runs 200 bootstrap iterations
MaxSeqLen  == 3      \* length of the pasted sequence

\* Program constants.
AVOGADRO_MANT     == 6022     \* AVOGADRO = 6.022e23 = 6022 * 10^20
AVOGADRO_EXP      == 20
AVERAGE_BP_WEIGHT == 650
MIN_POINTS        == 2
MIN_FACTOR        == 2
DEFAULT_CTU       == 250      \* 25.0
DEFAULT_DU        == 10       \* 1.0
PCT_LOW           == 25       \* 2.5th percentile, in per mille
PCT_HIGH          == 975      \* 97.5th percentile, in per mille

\* Sentinels.
NO_CT   == -1                 \* the Ct widget holds no user-entered value
NEG_INF == -1000000           \* np.log10(0)

\* Stand-in for the process-wide generator: a full-period LCG.
RngMod  == 8
RngMul  == 5
RngInc  == 3

\* Input values the model enumerates.
ConcValues     == {0, 650}
LengthValues   == {6022, 60220}
FactorValues   == {10, 100}
StartCtValues  == {90, 120}
IntervalValues == {30, 10}
CtValues       == {250}
UnkCounts      == {1, 2}          \* the widget allows 1..12
UnkCtValues    == {250, 90}
UnkDilValues   == {10, 0}
MinSlopeValues == {-360, -300}
MaxSlopeValues == {-310, -300}
R2Values       == {98, 100}
Alphabet       == {"A", "T", "t", " ", "\n"}

----------------------------------------------------------------------------
\* Exact arithmetic.

Abs(n) == IF n < 0 THEN -n ELSE n

RECURSIVE GCD(_, _)
GCD(a, b) == IF b = 0 THEN a ELSE GCD(b, a % b)

RECURSIVE Pow(_, _)
Pow(b, e) == IF e = 0 THEN 1 ELSE b * Pow(b, e - 1)

RECURSIVE TensIn(_)
TensIn(n) == IF n % 10 = 0 THEN 1 + TensIn(n \div 10) ELSE 0

\* The sequence f as an explicit tuple (the same value, enumerated once).
Tuple(f) == f \o <<>>

RECURSIVE SumSeq(_)
SumSeq(s) == IF s = <<>> THEN 0 ELSE Head(s) + SumSeq(Tail(s))

\* Rationals <<n, d>> in lowest terms with d > 0.
Rat(n, d) ==
    LET g == GCD(Abs(n), Abs(d))
        s == IF d < 0 THEN -1 ELSE 1
    IN  <<(s * n) \div g, (s * d) \div g>>
RAdd(a, b) == Rat(a[1] * b[2] + b[1] * a[2], a[2] * b[2])
RSub(a, b) == Rat(a[1] * b[2] - b[1] * a[2], a[2] * b[2])
RMul(a, b) == Rat(a[1] * b[1], a[2] * b[2])
RDiv(a, b) == Rat(a[1] * b[2], a[2] * b[1])
RLt(a, b)  == a[1] * b[2] < b[1] * a[2]

\* Decimal floats num/den * 10^exp, num >= 0, canonical form.
Dec(n, d, e) ==
    IF n = 0 THEN [num |-> 0, den |-> 1, exp |-> 0]
    ELSE LET g  == GCD(n, d)
             n1 == n \div g
             d1 == d \div g
             kn == TensIn(n1)
             kd == TensIn(d1)
         IN  [num |-> n1 \div Pow(10, kn), den |-> d1 \div Pow(10, kd),
              exp |-> e + kn - kd]
DecDiv(c, k) == Dec(c.num, c.den * k, c.exp)
DecPositive(c) == c.num > 0
DecLt(a, b) ==
    LET m == IF a.exp < b.exp THEN a.exp ELSE b.exp
    IN  a.num * b.den * Pow(10, a.exp - m) < b.num * a.den * Pow(10, b.exp - m)
IsPow10(c) == c.num = 1 /\ c.den = 1
Log10(c) == IF c.num = 0 THEN NEG_INF ELSE c.exp

----------------------------------------------------------------------------
\* Section 1: base copy number (method 'Concentration & Length').

calc_ng_length(conc_ng, length_bp) ==
    \* grams = conc_ng * 1e-9; moles = grams / (length_bp * 650);
    \* return moles * AVOGADRO
    Dec(conc_ng * AVOGADRO_MANT, length_bp * AVERAGE_BP_WEIGHT,
        AVOGADRO_EXP - 9)

----------------------------------------------------------------------------
\* Section 2: the standards.

WidgetCt(user, default_ct) == IF user = NO_CT THEN default_ct ELSE user

\* Mutant: the first point is already diluted once.
BuildStandards_shifted(base, f, p, s, iv, cts) ==
    Tuple([i \in 1..p |->
        LET dil == Pow(f, i)
        IN  [Dilution |-> dil,
             Ct       |-> WidgetCt(cts[i], s + (i - 1) * iv),
             Copies   |-> DecDiv(base, dil)]])

BuildStandards(base, f, p, s, iv, cts) ==
    Tuple([i \in 1..p |->
        LET dil == Pow(f, i - 1)
        IN  [Dilution |-> dil,
             Ct       |-> WidgetCt(cts[i], s + (i - 1) * iv),
             Copies   |-> DecDiv(base, dil)]])

----------------------------------------------------------------------------
\* Section 3: scipy.stats.linregress on x = log10(copies), y = Ct.

LinregressRaises(xs) ==
    \* ValueError "all x values are identical" (the outcome the script's own
    \* 'except ValueError' in the bootstrap expects); log10(0) = -inf in
    \* every row counts as identical
    Len(xs) > 1 /\ \A i, j \in 1..Len(xs) : xs[i] = xs[j]

Linregress(xs, ys) ==
    LET n     == Len(xs)
        Sx    == SumSeq(xs)
        Sy    == SumSeq(ys)
        Sxx   == SumSeq(Tuple([i \in 1..n |-> xs[i] * xs[i]]))
        Sxy   == SumSeq(Tuple([i \in 1..n |-> xs[i] * ys[i]]))
        Syy   == SumSeq(Tuple([i \in 1..n |-> ys[i] * ys[i]]))
        ssxm  == n * Sxx - Sx * Sx
        ssxym == n * Sxy - Sx * Sy
        ssym  == n * Syy - Sy * Sy
        m     == Rat(ssxym, ssxm)
    IN  [slope     |-> m,
         intercept |-> RSub(Rat(Sy, n), RMul(m, Rat(Sx, n))),
         r2        |-> IF ssym = 0 THEN <<0, 1>>
                       ELSE Rat(ssxym * ssxym, ssxm * ssym)]

Xs(std) == Tuple([i \in 1..Len(std) |-> Log10(std[i].Copies)])
Ys(std) == Tuple([i \in 1..Len(std) |-> std[i].Ct])

Efficiency(m) ==
    \* eff = (10 ** (-1 / slope) - 1) * 100, kept as the exponent of ten;
    \* a float64 slope of 0.0 gives -1/slope = -inf, 10 ** -inf = 0, eff = -100
    IF m[1] = 0 THEN [kind |-> "minus100", exponent |-> <<>>]
    ELSE [kind |-> "pow10", exponent |-> RDiv(<<-1, 1>>, m)]

RECURSIVE MinCopies(_)
MinCopies(std) ==
    IF Len(std) = 1 THEN std[1].Copies
    ELSE LET rest == MinCopies(Tail(std))
         IN  IF DecLt(std[1].Copies, rest) THEN std[1].Copies ELSE rest

----------------------------------------------------------------------------
\* Bootstrap CI (section 3, second half).

NextRng(s)      == (RngMul * s + RngInc) % RngMod
DrawIndex(s, n) == 1 + (s * n) \div RngMod

\* the generator's state after j draws
RECURSIVE RngAt(_, _)
RngAt(s, j) == IF j = 0 THEN s ELSE RngAt(NextRng(s), j - 1)

\* samp.sample(len(df_std), replace=True) in iteration it (1-based) of a
\* loop that started with the generator in state s: n row numbers
Sample(s, n, it) ==
    Tuple([k \in 1..n |-> DrawIndex(RngAt(s, (it - 1) * n + k - 1), n)])

Resample(std, idx) == Tuple([k \in 1..Len(idx) |-> std[idx[k]]])

ValidRows(samp) == SelectSeq(samp, LAMBDA row : DecPositive(row.Copies))

\* Mutant: a resample whose x values are all identical is not skipped.
BootIteration_noskip(samp) ==
    LET valid == ValidRows(samp)
    IN  IF Len(valid) < 2 THEN <<>>
        ELSE IF LinregressRaises(Xs(valid))
        THEN <<[m |-> <<0, 1>>, b |-> <<0, 1>>]>>
        ELSE LET f == Linregress(Xs(valid), Ys(valid))
             IN  <<[m |-> f.slope, b |-> f.intercept]>>

\* one iteration of the loop body: the pairs it appends to boot (none or one)
BootIteration(samp) ==
    LET valid == ValidRows(samp)
    IN  IF Len(valid) < 2 THEN <<>>
        ELSE IF LinregressRaises(Xs(valid)) THEN <<>>
        ELSE LET f == Linregress(Xs(valid), Ys(valid))
             IN  <<[m |-> f.slope, b |-> f.intercept]>>

\* the loop, iterations it..BootIters: for each, the rows drawn (idx) and
\* what the body appended to boot (out)
RECURSIVE BootLoop(_, _, _)
BootLoop(std, s, it) ==
    IF it > BootIters THEN <<>>
    ELSE LET idx == Sample(s, Len(std), it)
         IN  <<[idx |-> idx, out |-> BootIteration(Resample(std, idx))]>>
             \o BootLoop(std, s, it + 1)

\* boot after the loop
RECURSIVE Appended(_)
Appended(bl) ==
    IF bl = <<>> THEN <<>> ELSE Head(bl).out \o Appended(Tail(bl))

RECURSIVE InsertRat(_, _)
InsertRat(v, s) ==
    IF s = <<>> THEN <<v>>
    ELSE IF RLt(Head(s), v) THEN <<Head(s)>> \o InsertRat(v, Tail(s))
    ELSE <<v>> \o s

RECURSIVE SortRat(_)
SortRat(s) == IF s = <<>> THEN <<>> ELSE InsertRat(Head(s), SortRat(Tail(s)))

\* np.percentile(values, q), linear interpolation; q in per mille
Percentile(values, q) ==
    LET v    == SortRat(values)
        k    == Len(v)
        pos  == Rat(q * (k - 1), 1000)
        lo   == pos[1] \div pos[2]
        frac == RSub(pos, <<lo, 1>>)
    IN  IF lo + 2 > k THEN v[lo + 1]
        ELSE RAdd(v[lo + 1], RMul(frac, RSub(v[lo + 2], v[lo + 1])))

ConfidenceInterval(values) ==
    IF values = <<>> THEN <<>>
    ELSE <<Percentile(values, PCT_LOW), Percentile(values, PCT_HIGH)>>

BootSlopes(b)     == Tuple([k \in 1..Len(b) |-> b[k].m])
BootIntercepts(b) == Tuple([k \in 1..Len(b) |-> b[k].b])

----------------------------------------------------------------------------
\* Section 4: quality control.  m is in tenths, the thresholds in hundredths.

\* Mutant: an R-squared equal to the threshold is flagged too.
LowRSquared_inclusive(r2v, t) == ~RLt(Rat(t, 100), r2v)

LowRSquared(r2v, t) == RLt(r2v, Rat(t, 100))

SlopeOutOfRange(m, lo, hi) ==
    LET s == Rat(m[1], m[2] * 10)
    IN  ~(~RLt(s, Rat(lo, 100)) /\ ~RLt(Rat(hi, 100), s))

QualityControl(m, r2v, lo, hi, t) ==
    (IF LowRSquared(r2v, t) THEN {"LowRSquared"} ELSE {})
    \cup (IF SlopeOutOfRange(m, lo, hi) THEN {"SlopeOutOfRange"} ELSE {})

----------------------------------------------------------------------------
\* Section 5: unknowns.

RECURSIVE MinCt(_)
MinCt(std) ==
    IF Len(std) = 1 THEN std[1].Ct
    ELSE LET rest == MinCt(Tail(std))
         IN  IF std[1].Ct < rest THEN std[1].Ct ELSE rest

RECURSIVE MaxCt(_)
MaxCt(std) ==
    IF Len(std) = 1 THEN std[1].Ct
    ELSE LET rest == MaxCt(Tail(std))
         IN  IF std[1].Ct > rest THEN std[1].Ct ELSE rest

\* Mutant: a Ct equal to the smallest or largest standard Ct is flagged too.
OutOfRange_inclusive(ctu, std) == ctu <= MinCt(std) \/ ctu >= MaxCt(std)

OutOfRange(ctu, std) == ctu < MinCt(std) \/ ctu > MaxCt(std)

\* logn = (ctu - intercept) / slope; cu = 10 ** logn * du.
\* The result is mant * 10^log10 ("fin"); with a float64 slope of 0.0 the
\* quotient is +inf, -inf or nan and cu is inf, 0.0 or nan.
UnknownCopies(ctu, du, m, b) ==
    IF m[1] # 0
    THEN [kind |-> "fin", log10 |-> RDiv(RSub(<<ctu, 1>>, b), m),
          mant |-> Rat(du, 10)]
    ELSE LET diff == RSub(<<ctu, 1>>, b)
         IN  [kind  |-> IF diff[1] = 0 THEN "nan"
                        ELSE IF diff[1] < 0 THEN "zero"
                        ELSE IF du = 0 THEN "nan" ELSE "inf",
              log10 |-> <<>>, mant |-> Rat(du, 10)]

Unknowns(nu, uct, udu, m, b, std) ==
    [j \in 1..nu |->
        [Ct       |-> uct[j],
         Dilution |-> udu[j],
         Copies   |-> UnknownCopies(uct[j], udu[j], m, b),
         Warn     |-> OutOfRange(uct[j], std)]]

----------------------------------------------------------------------------
\* One run of the script, top to bottom.

NoRat == <<>>
NoEff == [kind |-> "none", exponent |-> <<>>]
NoDec == [num |-> 0, den |-> 0, exp |-> 0]

Script(c, l, f, p, s, iv, cts, lo, hi, t, nu, uct, udu, g) ==
    LET base == calc_ng_length(c, l)
        std  == BuildStandards(base, f, p, s, iv, cts)
    IN  IF LinregressRaises(Xs(std))
        THEN \* line 110 raises; nothing below it is rendered
             [status |-> "error", base_copies |-> base, df_std |-> std,
              slope |-> NoRat, intercept |-> NoRat, r2 |-> NoRat,
              eff |-> NoEff, lod |-> NoDec, draws |-> <<>>,
              recorded |-> <<>>, boot |-> <<>>,
              ci_m |-> <<>>, ci_b |-> <<>>, qc |-> {}, df_unk |-> <<>>,
              rng |-> g]
        ELSE LET fit == Linregress(Xs(std), Ys(std))
                 bl  == BootLoop(std, g, 1)
                 bt  == Appended(bl)
             IN  [status |-> "ok", base_copies |-> base, df_std |-> std,
                  slope |-> fit.slope, intercept |-> fit.intercept,
                  r2 |-> fit.r2, eff |-> Efficiency(fit.slope),
                  lod |-> MinCopies(std),
                  draws |-> [it \in 1..BootIters |-> bl[it].idx],
                  recorded |-> [it \in 1..BootIters |-> bl[it].out # <<>>],
                  boot |-> bt,
                  ci_m |-> ConfidenceInterval(BootSlopes(bt)),
                  ci_b |-> ConfidenceInterval(BootIntercepts(bt)),
                  qc |-> QualityControl(fit.slope, fit.r2, lo, hi, t),
                  df_unk |-> Unknowns(nu, uct, udu, fit.slope,
                                      fit.intercept, std),
                  rng |-> RngAt(g, BootIters * Len(std))]

\* Mutant: the run reads the standards' Ct widgets as they were before the
\* change.
Rerun_stale ==
    /\ page' = Script(conc', length', factor', points', start_ct', interval',
                      [i \in 1..points' |->
                          IF i <= points THEN ct_in[i] ELSE NO_CT],
                      min_slope', max_slope', r2_thresh', num_unk',
                      ctu_in', du_in', rng)
    /\ rng' = page'.rng

Rerun ==
    /\ page' = Script(conc', length', factor', points', start_ct', interval',
                      ct_in', min_slope', max_slope', r2_thresh', num_unk',
                      ctu_in', du_in', rng)
    /\ rng' = page'.rng

----------------------------------------------------------------------------
\* Section 1, method 'Sequence': calc_sequence up to the molar mass.

ReplaceChar(s, from, to) ==
    Tuple([i \in 1..Len(s) |-> IF s[i] = from THEN to ELSE s[i]])

RemoveChar(s, c) == SelectSeq(s, LAMBDA x : x # c)

IsSpace(c) == c \in {" ", "\n"}

RECURSIVE LStrip(_)
LStrip(s) ==
    IF s # <<>> /\ IsSpace(Head(s)) THEN LStrip(Tail(s)) ELSE s

RECURSIVE RStrip(_)
RStrip(s) ==
    IF s # <<>> /\ IsSpace(s[Len(s)]) THEN RStrip(SubSeq(s, 1, Len(s) - 1))
    ELSE s

Strip(s) == RStrip(LStrip(s))

UpperChar(c) ==
    CASE c = "a" -> "A" [] c = "c" -> "C" [] c = "g" -> "G"
      [] c = "t" -> "T" [] c = "u" -> "U" [] OTHER -> c

Upper(s) == Tuple([i \in 1..Len(s) |-> UpperChar(s[i])])

\* seq.replace('T','U').replace('\n','').strip().upper()
CleanSequence(s) == Upper(Strip(RemoveChar(ReplaceChar(s, "T", "U"), "\n")))

\* Bio.SeqUtils.molecular_weight(seq_clean, seq_type='RNA') drops whitespace
\* and upper-cases on its own, then raises ValueError on a letter that is
\* not an unambiguous RNA letter.
MolecularWeightRaises(sc) ==
    LET f == Upper(SelectSeq(sc, LAMBDA x : ~IsSpace(x)))
    IN  \E i \in 1..Len(f) : f[i] \notin {"A", "C", "G", "U"}

RECURSIVE Strings(_)
Strings(n) ==
    IF n = 0 THEN {<<>>}
    ELSE LET shorter == Strings(n - 1)
         IN  shorter \cup {Append(s, c) : s \in shorter, c \in Alphabet}

EnterSequence ==
    \E s \in Strings(MaxSeqLen) :
        /\ s # seq
        /\ seq' = s
        /\ IF s = <<>>
           THEN \* 'Enter sequence' warning and st.stop()
                seq_clean' = <<>> /\ seq_status' = "stopped"
           ELSE /\ seq_clean' = CleanSequence(s)
                /\ seq_status' = IF MolecularWeightRaises(CleanSequence(s))
                                 THEN "error" ELSE "ok"
        /\ UNCHANGED <<inputs, rng, outputs>>

----------------------------------------------------------------------------
\* Widget changes.  Each one is followed by a run of the script.

\* A keyed Ct widget whose default changed either keeps the user's value or
\* falls back to the new default, depending on how the framework identifies
\* the widget; both are allowed.
CtAfterDefaultChange(keep, s2, iv2) ==
    [i \in 1..points |->
        IF keep \/ s2 + (i - 1) * iv2 = start_ct + (i - 1) * interval
        THEN ct_in[i] ELSE NO_CT]

SetConc ==
    \E v \in ConcValues :
        /\ v # conc
        /\ conc' = v
        /\ UNCHANGED <<length, factor, points, start_ct, interval, ct_in,
                       min_slope, max_slope, r2_thresh, num_unk, ctu_in,
                       du_in, seqvars>>
        /\ Rerun

SetLength ==
    \E v \in LengthValues :
        /\ v # length
        /\ length' = v
        /\ UNCHANGED <<conc, factor, points, start_ct, interval, ct_in,
                       min_slope, max_slope, r2_thresh, num_unk, ctu_in,
                       du_in, seqvars>>
        /\ Rerun

SetFactor ==
    \E v \in FactorValues :
        /\ v # factor
        /\ v >= MIN_FACTOR
        /\ factor' = v
        /\ UNCHANGED <<conc, length, points, start_ct, interval, ct_in,
                       min_slope, max_slope, r2_thresh, num_unk, ctu_in,
                       du_in, seqvars>>
        /\ Rerun

SetPoints ==
    \E p \in MIN_POINTS..MaxPoints :
        /\ p # points
        /\ points' = p
        \* widgets that are no longer rendered lose their state
        /\ ct_in' = [i \in 1..p |-> IF i <= points THEN ct_in[i] ELSE NO_CT]
        /\ UNCHANGED <<conc, length, factor, start_ct, interval,
                       min_slope, max_slope, r2_thresh, num_unk, ctu_in,
                       du_in, seqvars>>
        /\ Rerun

SetStartCt ==
    \E v \in StartCtValues, keep \in BOOLEAN :
        /\ v # start_ct
        /\ start_ct' = v
        /\ ct_in' = CtAfterDefaultChange(keep, v, interval)
        /\ UNCHANGED <<conc, length, factor, points, interval,
                       min_slope, max_slope, r2_thresh, num_unk, ctu_in,
                       du_in, seqvars>>
        /\ Rerun

SetInterval ==
    \E v \in IntervalValues, keep \in BOOLEAN :
        /\ v # interval
        /\ interval' = v
        /\ ct_in' = CtAfterDefaultChange(keep, start_ct, v)
        /\ UNCHANGED <<conc, length, factor, points, start_ct,
                       min_slope, max_slope, r2_thresh, num_unk, ctu_in,
                       du_in, seqvars>>
        /\ Rerun

SetCt ==
    \E i \in 1..points, v \in CtValues :
        /\ v # ct_in[i]
        /\ ct_in' = [ct_in EXCEPT ![i] = v]
        /\ UNCHANGED <<conc, length, factor, points, start_ct, interval,
                       min_slope, max_slope, r2_thresh, num_unk, ctu_in,
                       du_in, seqvars>>
        /\ Rerun

SetMinSlope ==
    \E v \in MinSlopeValues :
        /\ v # min_slope
        /\ min_slope' = v
        /\ UNCHANGED <<conc, length, factor, points, start_ct, interval,
                       ct_in, max_slope, r2_thresh, num_unk, ctu_in, du_in,
                       seqvars>>
        /\ Rerun

SetMaxSlope ==
    \E v \in MaxSlopeValues :
        /\ v # max_slope
        /\ max_slope' = v
        /\ UNCHANGED <<conc, length, factor, points, start_ct, interval,
                       ct_in, min_slope, r2_thresh, num_unk, ctu_in, du_in,
                       seqvars>>
        /\ Rerun

SetR2Thresh ==
    \E v \in R2Values :
        /\ v # r2_thresh
        /\ r2_thresh' = v
        /\ UNCHANGED <<conc, length, factor, points, start_ct, interval,
                       ct_in, min_slope, max_slope, num_unk, ctu_in, du_in,
                       seqvars>>
        /\ Rerun

SetNumUnk ==
    \E n \in UnkCounts :
        /\ n # num_unk
        /\ num_unk' = n
        /\ ctu_in' = [j \in 1..n |->
                        IF j <= num_unk THEN ctu_in[j] ELSE DEFAULT_CTU]
        /\ du_in'  = [j \in 1..n |->
                        IF j <= num_unk THEN du_in[j] ELSE DEFAULT_DU]
        /\ UNCHANGED <<conc, length, factor, points, start_ct, interval,
                       ct_in, min_slope, max_slope, r2_thresh, seqvars>>
        /\ Rerun

SetUnkCt ==
    \E j \in 1..num_unk, v \in UnkCtValues :
        /\ v # ctu_in[j]
        /\ ctu_in' = [ctu_in EXCEPT ![j] = v]
        /\ UNCHANGED <<conc, length, factor, points, start_ct, interval,
                       ct_in, min_slope, max_slope, r2_thresh, num_unk,
                       du_in, seqvars>>
        /\ Rerun

SetUnkDil ==
    \E j \in 1..num_unk, v \in UnkDilValues :
        /\ v # du_in[j]
        /\ du_in' = [du_in EXCEPT ![j] = v]
        /\ UNCHANGED <<conc, length, factor, points, start_ct, interval,
                       ct_in, min_slope, max_slope, r2_thresh, num_unk,
                       ctu_in, seqvars>>
        /\ Rerun

----------------------------------------------------------------------------
\* Initial states: the page after a run with the stock set to give 10^11
\* copies, two points, one unknown and every other widget at its default;
\* the generator is unseeded, so its state before that run is arbitrary.

InitWith(seeds, seqst) ==
    /\ conc = 650
    /\ length = 6022
    /\ factor = 10
    /\ points = MIN_POINTS
    /\ start_ct = 90
    /\ interval = 30
    /\ ct_in = [i \in 1..MIN_POINTS |-> NO_CT]
    /\ min_slope = -360
    /\ max_slope = -310
    /\ r2_thresh = 98
    /\ num_unk = 1
    /\ ctu_in = <<DEFAULT_CTU>>
    /\ du_in = <<DEFAULT_DU>>
    /\ \E seed \in seeds :
         /\ page = Script(conc, length, factor, points, start_ct, interval,
                          ct_in, min_slope, max_slope, r2_thresh, num_unk,
                          ctu_in, du_in, seed)
         /\ rng = page.rng
    /\ seq = <<>>
    /\ seq_clean = <<>>
    /\ seq_status = seqst

Init == InitWith(0..(RngMod - 1), "idle")

\* The standards: stock, dilution series and the standards' Ct.
Next ==
    \/ SetConc
    \/ SetLength
    \/ SetFactor
    \/ SetPoints
    \/ SetStartCt
    \/ SetInterval
    \/ SetCt

Spec == Init /\ [][Next]_vars

\* The unknowns against a changing curve.
NextUnk ==
    \/ SetConc
    \/ SetFactor
    \/ SetPoints
    \/ SetCt
    \/ SetNumUnk
    \/ SetUnkCt
    \/ SetUnkDil

SpecUnk == Init /\ [][NextUnk]_vars

\* Quality control: the thresholds against curves of different shape.
NextQC ==
    \/ SetMinSlope
    \/ SetMaxSlope
    \/ SetR2Thresh
    \/ SetPoints
    \/ SetInterval
    \/ SetCt

SpecQC == Init /\ [][NextQC]_vars

\* The sequence method of section 1.
InitSeq == InitWith({0}, "stopped")

NextSeq == EnterSequence

SpecSeq == InitSeq /\ [][NextSeq]_vars

----------------------------------------------------------------------------
\* Properties.

\* Every copy number of the page is zero or a power of ten, so log10 is exact.
LogExact ==
    \A i \in 1..Len(page.df_std) :
        page.df_std[i].Copies.num = 0 \/ IsPow10(page.df_std[i].Copies)

\* C1: the point at 0-based index i has cumulative dilution factor^i (the
\* first point is undiluted), its copies times that dilution is the base
\* copy number, and its Ct is the user's value for that index when there is
\* one and start_ct + i*interval otherwise; the points are in index order.
ThmC1 ==
    /\ Len(page.df_std) = points
    /\ page.df_std[1].Dilution = 1
    /\ \A i \in 1..points :
         LET row == page.df_std[i]
         IN  /\ i > 1 => row.Dilution = factor * page.df_std[i - 1].Dilution
             /\ Dec(row.Copies.num * row.Dilution, row.Copies.den,
                    row.Copies.exp) = page.base_copies
             /\ ct_in[i] # NO_CT => row.Ct = ct_in[i]
             /\ ct_in[i] = NO_CT => row.Ct = start_ct + (i - 1) * interval

WitC1 ==
    /\ points = 3
    /\ factor = 100
    /\ ct_in[2] = 250 /\ ct_in[3] = NO_CT
    /\ page.df_std[2].Ct = 250
    /\ page.df_std[3].Ct = start_ct + 2 * interval
    /\ page.df_std[3].Dilution = 10000
    /\ DecPositive(page.df_std[3].Copies)

\* C2: an unknown is flagged exactly when its Ct is below every standard's
\* Ct or above every standard's Ct (equal to the smallest or largest is not
\* flagged), and a flagged unknown still has its row with a copy number.
ThmC2 ==
    page.status = "ok" =>
        /\ Len(page.df_unk) = num_unk
        /\ \A j \in 1..num_unk :
             LET u == page.df_unk[j]
             IN  /\ u.Warn <=>
                       \/ \A i \in 1..Len(page.df_std) : u.Ct < page.df_std[i].Ct
                       \/ \A i \in 1..Len(page.df_std) : u.Ct > page.df_std[i].Ct
                 /\ u.Copies.kind \in {"fin", "inf", "zero", "nan"}

WitC2 ==
    /\ page.status = "ok"
    /\ \E j, k \in 1..Len(page.df_unk) :
         /\ page.df_unk[j].Ct = MaxCt(page.df_std)
         /\ ~page.df_unk[j].Warn
         /\ page.df_unk[k].Ct < MinCt(page.df_std)
         /\ page.df_unk[k].Warn
         /\ page.df_unk[k].Copies.kind = "fin"
         /\ page.df_unk[k].Copies.mant[1] > 0

\* C3: LowRSquared is emitted iff r_squared < min_r_squared, SlopeOutOfRange
\* iff slope < min_slope or slope > max_slope (a slope on a bound is in
\* range); the two are decided independently.
\* (slope is in tenths, the thresholds in hundredths.)
ThmC3 ==
    page.status = "ok" =>
        /\ ("LowRSquared" \in page.qc)
              <=> page.r2[1] * 100 < r2_thresh * page.r2[2]
        /\ ("SlopeOutOfRange" \in page.qc)
              <=> \/ page.slope[1] * 10 < min_slope * page.slope[2]
                  \/ page.slope[1] * 10 > max_slope * page.slope[2]
        /\ page.qc \subseteq {"LowRSquared", "SlopeOutOfRange"}

WitC3 ==
    /\ page.status = "ok"
    /\ page.slope[1] * 10 = max_slope * page.slope[2]
    /\ page.r2[1] * 100 = r2_thresh * page.r2[2]
    /\ page.qc = {}

\* The reference normalisation: upper-cased, every T replaced by U, all
\* whitespace and newlines removed.
RefNormalize(s) ==
    ReplaceChar(Upper(SelectSeq(s, LAMBDA x : ~IsSpace(x))), "T", "U")

\* C4: whenever a sequence was handed to the molar-mass computation, it is
\* the reference normalisation of the input (so it holds no T, no lower-case
\* letter and no whitespace).
CexC4 ==
    seq_status \in {"ok", "error"} => seq_clean = RefNormalize(seq)

\* At least 2 of the drawn rows have positive copies and the drawn rows'
\* copies (hence their log10) are not all identical.
Recordable(idx) ==
    /\ Cardinality({k \in 1..Len(idx) :
                      page.df_std[idx[k]].Copies.num > 0}) >= 2
    /\ \E k1, k2 \in 1..Len(idx) :
         page.df_std[idx[k1]].Copies # page.df_std[idx[k2]].Copies

\* C5: each bootstrap iteration draws len(points) rows with replacement and
\* appends a pair iff at least 2 drawn rows have positive copies and the
\* drawn rows' log10(copies) are not all identical; so the recorded pairs
\* are as many as such iterations and never more than the iterations.
ThmC5 ==
    page.status = "ok" =>
        /\ Len(page.draws) = BootIters
        /\ \A it \in 1..BootIters :
             /\ Len(page.draws[it]) = Len(page.df_std)
             /\ \A k \in 1..Len(page.draws[it]) :
                  page.draws[it][k] \in 1..Len(page.df_std)
             /\ page.recorded[it] <=> Recordable(page.draws[it])
        /\ Len(page.boot) =
             Cardinality({it \in 1..BootIters : page.recorded[it]})
        /\ Len(page.boot) <= BootIters

WitC5 ==
    /\ page.status = "ok"
    /\ factor = 100
    /\ \E it1, it2 \in 1..BootIters :
         \* one resample drew the same row every time and was discarded
         /\ \A k \in 1..Len(page.draws[it1]) :
              page.draws[it1][k] = page.draws[it1][1]
         /\ ~page.recorded[it1]
         /\ page.recorded[it2]
    /\ Len(page.boot) = BootIters - 1

\* C6: two runs of the bootstrap on the same standard points draw the same
\* resamples and show the same slope and intercept intervals.
CexC6 ==
    [][(page.status = "ok" /\ page'.status = "ok"
          /\ page'.df_std = page.df_std)
        => /\ page'.draws = page.draws
           /\ page'.ci_m = page.ci_m
           /\ page'.ci_b = page.ci_b]_vars

\* C7: no series is built from a base copy number <= 0; in particular no
\* built series has a point with zero copies.
CexC7 ==
    /\ ~DecPositive(page.base_copies) => page.df_std = <<>>
    /\ \A i \in 1..Len(page.df_std) : DecPositive(page.df_std[i].Copies)

\* C8: with a fitted slope of 0 no efficiency is reported and no unknown
\* gets a copy number.
CexC8 ==
    (page.status = "ok" /\ page.slope[1] = 0) =>
        /\ page.eff = NoEff
        /\ page.df_unk = <<>>

\* mant * 10^log10 > 0, or +inf
CopiesPositive(cu) ==
    \/ cu.kind = "inf"
    \/ cu.kind = "fin" /\ cu.mant[1] > 0

\* C9: no unknown result is produced for a dilution factor <= 0 (or a
\* negative Ct), and every produced unknown has copies > 0.
CexC9 ==
    \A j \in 1..Len(page.df_unk) :
        /\ page.df_unk[j].Ct >= 0
        /\ page.df_unk[j].Dilution > 0
        /\ CopiesPositive(page.df_unk[j].Copies)

====
